---- MODULE Spec2Model ----
(***************************************************************************)
(* relie/utils/so3_tools.py: the SO(3) conversion kernels and the          *)
(* per-device cache of constant matrices (JContainer).                     *)
(*                                                                         *)
(* Numbers.  torch works on IEEE doubles; the kernels are modelled on a    *)
(* grid on which every operation of the source is exact:                   *)
(*   - angles (algebra vectors, theta, the entries of a log) are whole     *)
(*     multiples of a quarter turn (pi/2): the integer k stands for        *)
(*     k*pi/2, so sin and cos are exact and land in {-1, 0, 1};            *)
(*   - matrix entries of so3_exp / so3_log are whole numbers;              *)
(*   - the IEEE special values are kept: NaN (0/0, sqrt of a negative,     *)
(*     anything computed from a NaN) and the two infinities (x/0).         *)
(* An operation whose exact result is off the grid has no defined value    *)
(* here (a CASE without a matching arm), so a run that needed one stops    *)
(* with an error instead of rounding silently.                             *)
(* Tensors are indexed from 1 (the source indexes from 0).                 *)
(***************************************************************************)
EXTENDS Integers, Sequences, FiniteSets, TLC

VARIABLES
    fn,          \* the kernel under call ("none" in the cache specifications)
    arg,         \* its argument
    res,         \* its result, once returned
    done,        \* whether the call has returned
    data,        \* JContainer.data: the class-level dict, str(device) -> list
    lists,       \* the lists built so far (the heap): id -> [device, J]
    pc,          \* per thread: where it stands in its call
    call,        \* per thread: the call it is in
    device_data, \* per thread: the local device_data of JContainer.get
    ret,         \* per thread: what its JContainer.get returned
    J,           \* per thread: the constant matrix wigner_d_matrix read
    ncalls       \* per thread: calls started so far

vars == <<fn, arg, res, done, data, lists, pc, call, device_data, ret, J, ncalls>>
kernelVars == <<fn, arg, res, done>>
cacheVars == <<data, lists, pc, call, device_data, ret, J, ncalls>>

(***************************************************************************)
(* Bounds of the model.                                                    *)
(***************************************************************************)
MaxBatch == 2      \* batch length of a kernel call
MaxTurns == 2      \* largest |component| of an algebra vector, in quarter turns
MaxComp == 2       \* largest |component| of a so3_hat argument
MaxNormSq == 3     \* largest squared norm of the integer quaternions that
                   \* generate the so3_matrix_to_quaternions inputs
MaxDegree == 2     \* largest max_degree of block_wigner_matrix_multiply
MaxCalls == 2      \* calls per thread in the cache specifications
NThreads == 2      \* threads in the cache specifications

(***************************************************************************)
(* IEEE arithmetic on the grid.                                            *)
(***************************************************************************)
NaN == 2000000
PosInf == 1000000
NegInf == 0 - PosInf

IsNaN(x) == x = NaN
IsInf(x) == x = PosInf \/ x = NegInf
IsNum(x) == ~IsNaN(x) /\ ~IsInf(x)

Abs(x) == IF x < 0 THEN 0 - x ELSE x
Sign(x) == IF x < 0 THEN 0 - 1 ELSE IF x > 0 THEN 1 ELSE 0
SignedInf(s) == IF s < 0 THEN NegInf ELSE PosInf

Neg(x) ==
    IF IsNaN(x) THEN NaN
    ELSE IF x = PosInf THEN NegInf
    ELSE IF x = NegInf THEN PosInf
    ELSE 0 - x

Add(a, b) ==
    IF IsNaN(a) \/ IsNaN(b) THEN NaN
    ELSE IF IsInf(a) THEN (IF IsInf(b) /\ a # b THEN NaN ELSE a)
    ELSE IF IsInf(b) THEN b
    ELSE a + b

Sub(a, b) == Add(a, Neg(b))

Mul(a, b) ==
    IF IsNaN(a) \/ IsNaN(b) THEN NaN
    ELSE IF IsInf(a) \/ IsInf(b)
         THEN (IF a = 0 \/ b = 0 THEN NaN ELSE SignedInf(Sign(a) * Sign(b)))
    ELSE a * b

\* a / b; a finite quotient must be exact
Div(a, b) ==
    CASE IsNaN(a) \/ IsNaN(b) -> NaN
      [] IsInf(a) /\ IsInf(b) -> NaN
      [] IsInf(a) /\ ~IsInf(b) -> SignedInf(Sign(a) * (IF b < 0 THEN 0 - 1 ELSE 1))
      [] IsNum(a) /\ IsInf(b) -> 0
      [] IsNum(a) /\ b = 0 /\ a = 0 -> NaN
      [] IsNum(a) /\ b = 0 /\ a # 0 -> SignedInf(Sign(a))
      [] IsNum(a) /\ IsNum(b) /\ b # 0 /\ Abs(a) % Abs(b) = 0 ->
            Sign(a) * Sign(b) * (Abs(a) \div Abs(b))

\* torch.sqrt; a finite root must be exact
Sqrt(a) ==
    CASE IsNaN(a) -> NaN
      [] a = PosInf -> PosInf
      [] ~IsNaN(a) /\ a < 0 -> NaN
      [] IsNum(a) /\ a >= 0 /\ (\E s \in 0..a : s * s = a) ->
            CHOOSE s \in 0..a : s * s = a

\* a < b as torch compares: false as soon as one side is NaN
Lt(a, b) == ~IsNaN(a) /\ ~IsNaN(b) /\ a < b
Gt(a, b) == Lt(b, a)

\* torch.sin, torch.cos of k quarter turns
Sin(t) ==
    IF ~IsNum(t) THEN NaN
    ELSE CASE t % 4 = 0 -> 0
           [] t % 4 = 1 -> 1
           [] t % 4 = 2 -> 0
           [] t % 4 = 3 -> 0 - 1

Cos(t) ==
    IF ~IsNum(t) THEN NaN
    ELSE CASE t % 4 = 0 -> 1
           [] t % 4 = 1 -> 0
           [] t % 4 = 2 -> 0 - 1
           [] t % 4 = 3 -> 0

\* torch.acos, in quarter turns
Acos(c) ==
    CASE IsNaN(c) -> NaN
      [] c = 1 -> 0
      [] c = 0 -> 1
      [] c = 0 - 1 -> 2

\* Tensor.clamp(lo, hi)
Clamp(x, lo, hi) ==
    IF IsNaN(x) THEN NaN ELSE IF x < lo THEN lo ELSE IF x > hi THEN hi ELSE x

(***************************************************************************)
(* 3-vectors and 3x3 matrices.                                             *)
(***************************************************************************)
I3 == 1..3
Zero3 == <<0, 0, 0>>
Eye == <<<<1, 0, 0>>, <<0, 1, 0>>, <<0, 0, 1>>>>
ZeroMat == <<Zero3, Zero3, Zero3>>
NaNMat == <<<<NaN, NaN, NaN>>, <<NaN, NaN, NaN>>, <<NaN, NaN, NaN>>>>

\* Values are built as explicit tuples, so that each entry is computed once.
Vec3(F(_)) == <<F(1), F(2), F(3)>>
Mat3(F(_, _)) ==
    <<<<F(1, 1), F(1, 2), F(1, 3)>>,
      <<F(2, 1), F(2, 2), F(2, 3)>>,
      <<F(3, 1), F(3, 2), F(3, 3)>>>>
\* a batch (a function on 1..n) as a tuple
Eager(s) == s \o <<>>

VecDiv(v, c) == LET F(i) == Div(v[i], c) IN Vec3(F)
VecMul(u, v) == LET F(i) == Mul(u[i], v[i]) IN Vec3(F)
MatAdd(a, b) == LET F(i, j) == Add(a[i][j], b[i][j]) IN Mat3(F)
MatSub(a, b) == LET F(i, j) == Sub(a[i][j], b[i][j]) IN Mat3(F)
MatScale(c, a) == LET F(i, j) == Mul(c, a[i][j]) IN Mat3(F)
MatHalf(a) == LET F(i, j) == Div(a[i][j], 2) IN Mat3(F)
MatNeg(a) == LET F(i, j) == Neg(a[i][j]) IN Mat3(F)
Transpose(a) == LET F(i, j) == a[j][i] IN Mat3(F)
MatMul(a, b) ==
    LET F(i, j) ==
            Add(Add(Mul(a[i][1], b[1][j]), Mul(a[i][2], b[2][j])), Mul(a[i][3], b[3][j]))
    IN  Mat3(F)
MatHasNaN(a) == \E i \in I3 : \E j \in I3 : IsNaN(a[i][j])

\* Tensor.norm(p=2, dim=-1)
Norm(v) == Sqrt(Add(Add(Mul(v[1], v[1]), Mul(v[2], v[2])), Mul(v[3], v[3])))

\* relie.utils.numerical.batch_trace
batch_trace(r) == Add(Add(r[1][1], r[2][2]), r[3][3])

\* the indices at which a boolean sequence is true, ascending (Tensor.nonzero)
Nonzero(b) ==
    LET Hit(i) == b[i]
    IN  SelectSeq(Eager([i \in 1..Len(b) |-> i]), Hit)

Range(s) == {s[i] : i \in DOMAIN s}
\* the position of index i in the ascending index sequence m
PosIn(m, i) == CHOOSE p \in DOMAIN m : m[p] = i

(***************************************************************************)
(* so3_hat, so3_vee                                                        *)
(***************************************************************************)
e_x == <<<<0, 0, 0>>, <<0, 0, 0 - 1>>, <<0, 1, 0>>>>
e_y == <<<<0, 0, 1>>, <<0, 0, 0>>, <<0 - 1, 0, 0>>>>
e_z == <<<<0, 0 - 1, 0>>, <<1, 0, 0>>, <<0, 0, 0>>>>

so3_hat(v) ==
    MatAdd(MatAdd(MatScale(v[1], e_x), MatScale(v[2], e_y)), MatScale(v[3], e_z))

so3_vee_swapped(x) == <<Neg(x[2][3]), x[1][3], Neg(x[2][1])>>

so3_vee(x) == <<Neg(x[2][3]), x[1][3], Neg(x[1][2])>>

(***************************************************************************)
(* so3_exp                                                                 *)
(***************************************************************************)
\* "x < 1E-20" for an angle x: 1E-20 rad lies strictly between 0 and one
\* grid step, so on the grid the comparison selects exactly x = 0
LtTheta(x) == Lt(x, 1)

\* line 50: the boolean mask theta[..., 0] < 1E-20, per batch element
so3_exp_mask_none(theta) == Eager([i \in DOMAIN theta |-> FALSE])

so3_exp_mask(theta) == Eager([i \in DOMAIN theta |-> LtTheta(theta[i])])

\* lines 46-50: the axis handed to so3_hat
so3_exp_v_normed(v) ==
    LET theta == Eager([i \in DOMAIN v |-> Norm(v[i])])
        v_normed == Eager([i \in DOMAIN v |-> VecDiv(v[i], theta[i])])
        mask == so3_exp_mask(theta)
    IN  Eager([i \in DOMAIN v |-> IF mask[i] THEN Zero3 ELSE v_normed[i]])

so3_exp(v) ==
    LET theta == Eager([i \in DOMAIN v |-> Norm(v[i])])
        v_normed == so3_exp_v_normed(v)
        k == Eager([i \in DOMAIN v |-> so3_hat(v_normed[i])])
    IN  Eager([i \in DOMAIN v |->
            MatAdd(MatAdd(Eye, MatScale(Sin(theta[i]), k[i])),
                   MatScale(Sub(1, Cos(theta[i])), MatMul(k[i], k[i])))])

(***************************************************************************)
(* so3_log_pi, so3_log                                                     *)
(***************************************************************************)
\* relie.utils.numerical.zero_one_outer_product(3) * 2 - 1: the 8 sign rows
signs ==
    <<<<0 - 1, 0 - 1, 0 - 1>>, <<0 - 1, 0 - 1, 1>>, <<0 - 1, 1, 0 - 1>>, <<0 - 1, 1, 1>>,
      <<1, 0 - 1, 0 - 1>>, <<1, 0 - 1, 1>>, <<1, 1, 0 - 1>>, <<1, 1, 1>>>>

\* torch.argmin over a sequence: the first NaN if there is one, else the first
\* index holding the least value
ArgMin(d) ==
    IF \E s \in DOMAIN d : IsNaN(d[s])
    THEN CHOOSE s \in DOMAIN d : IsNaN(d[s]) /\ \A t \in 1..(s - 1) : ~IsNaN(d[t])
    ELSE CHOOSE s \in DOMAIN d :
            /\ \A t \in DOMAIN d : d[s] <= d[t]
            /\ \A t \in 1..(s - 1) : d[t] > d[s]

\* torch.argmax over a sequence, likewise
ArgMax(d) ==
    IF \E s \in DOMAIN d : IsNaN(d[s])
    THEN CHOOSE s \in DOMAIN d : IsNaN(d[s]) /\ \A t \in 1..(s - 1) : ~IsNaN(d[t])
    ELSE CHOOSE s \in DOMAIN d :
            /\ \A t \in DOMAIN d : d[s] >= d[t]
            /\ \A t \in 1..(s - 1) : d[t] < d[s]

\* lines 96-106: the magnitudes |x_1|, |x_2|, |x_3| per batch element
so3_log_pi_x(r, theta) ==
    LET sym == Eager([i \in DOMAIN r |-> MatHalf(MatAdd(r[i], Transpose(r[i])))])
        z == Eager([i \in DOMAIN r |->
                MatScale(Div(Mul(theta[i], theta[i]), Sub(1, Cos(theta[i]))),
                         MatSub(sym[i], Eye))])
        q_1 == Eager([i \in DOMAIN r |-> z[i][1][1]])
        q_2 == Eager([i \in DOMAIN r |-> z[i][2][2]])
        q_3 == Eager([i \in DOMAIN r |-> z[i][3][3]])
        x_1 == Eager([i \in DOMAIN r |-> Sqrt(Div(Sub(Sub(q_1[i], q_2[i]), q_3[i]), 2))])
        x_2 == Eager([i \in DOMAIN r |-> Sqrt(Div(Sub(Add(Neg(q_1[i]), q_2[i]), q_3[i]), 2))])
        x_3 == Eager([i \in DOMAIN r |-> Sqrt(Div(Add(Sub(Neg(q_1[i]), q_2[i]), q_3[i]), 2))])
    IN  Eager([i \in DOMAIN r |-> <<x_1[i], x_2[i], x_3[i]>>])

\* line 110: x_stack[s][i] = signs[s] * x[i]
so3_log_pi_x_stack(x) ==
    Eager([s \in DOMAIN signs |-> Eager([i \in DOMAIN x |-> VecMul(signs[s], x[i])])])

\* lines 112-113: diff[s][i], the squared Frobenius distance of candidate s
so3_log_pi_diff(r, x_stack) ==
    LET r_stack == Eager([s \in DOMAIN x_stack |-> so3_exp(x_stack[s])])
        Sq(a) == Mul(a, a)
        Dist(a, b) ==
            LET e == MatSub(a, b)
                Row(i) == Add(Add(Sq(e[i][1]), Sq(e[i][2])), Sq(e[i][3]))
            IN  Add(Add(Row(1), Row(2)), Row(3))
    IN  Eager([s \in DOMAIN x_stack |-> Eager([i \in DOMAIN r |-> Dist(r[i], r_stack[s][i])])])

\* line 114: selector = argmin(diff, dim=0), one index per batch element
so3_log_pi_selector_max(diff, n) ==
    Eager([i \in 1..n |-> ArgMax(Eager([s \in DOMAIN diff |-> diff[s][i]]))])

so3_log_pi_selector(diff, n) ==
    Eager([i \in 1..n |-> ArgMin(Eager([s \in DOMAIN diff |-> diff[s][i]]))])

so3_log_pi(r, theta) ==
    LET x == so3_log_pi_x(r, theta)
        x_stack == so3_log_pi_x_stack(x)
        diff == so3_log_pi_diff(r, x_stack)
        selector == so3_log_pi_selector(diff, Len(r))
    IN  Eager([i \in DOMAIN r |-> so3_hat(x_stack[selector[i]][i])])

\* line 69-71: cos_theta (clamped) and theta per batch element
so3_log_cos_theta(r) ==
    Eager([i \in DOMAIN r |-> Clamp(Div(Sub(batch_trace(r[i]), 1), 2), 0 - 1, 1)])
so3_log_theta(r) ==
    LET cos_theta == so3_log_cos_theta(r)
    IN  Eager([i \in DOMAIN r |-> Acos(cos_theta[i])])

\* line 75: mask = (theta[..., 0, 0] < 1E-20).nonzero()
so3_log_mask_zero(theta) == Nonzero(Eager([i \in DOMAIN theta |-> LtTheta(theta[i])]))

\* line 81: mask = (cos_theta[..., 0, 0].abs() > 1-1E-5).nonzero(); the
\* comparison |c| > 1 - 1E-5 is taken times 1E5
PiTolInv == 100000
so3_log_mask_pi(cos_theta) ==
    Nonzero(Eager([i \in DOMAIN cos_theta |->
        ~IsNaN(cos_theta[i]) /\ Abs(cos_theta[i]) * PiTolInv > PiTolInv - 1]))

\* Tensor indexing by an index sequence
Gather(t, m) == Eager([p \in DOMAIN m |-> t[m[p]]])

so3_log(r) ==
    LET anti_sym == Eager([i \in DOMAIN r |-> MatHalf(MatSub(r[i], Transpose(r[i])))])
        cos_theta == so3_log_cos_theta(r)
        theta == so3_log_theta(r)
        ratio0 == Eager([i \in DOMAIN r |-> Div(theta[i], Sin(theta[i]))])
        mask0 == so3_log_mask_zero(theta)
        \* ratio[mask] = 1 + theta[mask] ** 2 / 6
        ratio == Eager([i \in DOMAIN r |->
                    IF i \in Range(mask0)
                    THEN Add(1, Div(Mul(theta[i], theta[i]), 6))
                    ELSE ratio0[i]])
        log0 == Eager([i \in DOMAIN r |-> MatScale(ratio[i], anti_sym[i])])
        mask == so3_log_mask_pi(cos_theta)
        \* log[mask[:, 0]] = so3_log_pi(r[mask[:, 0]], theta[mask[:, 0]])
        log_pi == IF Len(mask) > 0
                  THEN so3_log_pi(Gather(r, mask), Gather(theta, mask))
                  ELSE <<>>
    IN  Eager([i \in DOMAIN r |->
            IF i \in Range(mask) THEN log_pi[PosIn(mask, i)] ELSE log0[i]])

(***************************************************************************)
(* so3_matrix_to_quaternions, quaternions_to_so3_matrix                    *)
(*                                                                         *)
(* A rotation matrix is held as whole numerators m over one common         *)
(* positive denominator `one`: the entry 2/3 is m = 2, one = 3.            *)
(* denom[k] = 0.5 * sqrt(1E-6 + |denom_pre[k]|) is irrational in general;  *)
(* it is held by its square, 4 * denom[k]^2 = |denom_pre[k]| (the 1E-6 is  *)
(* below the grid and dropped), and a candidate quaternion is held by the  *)
(* numerators of its components over the common positive denominator       *)
(* 4 * denom[k], which the normalisation of quaternions_to_so3_matrix      *)
(* removes.                                                                *)
(***************************************************************************)
diags(r) == <<r.m[1][1], r.m[2][2], r.m[3][3]>>

\* lines 157-162
denom_pre(r) ==
    LET d == diags(r)
    IN  <<r.one + d[1] - d[2] - d[3],
          r.one - d[1] + d[2] - d[3],
          r.one - d[1] - d[2] + d[3],
          r.one + d[1] + d[2] + d[3]>>

\* line 163, squared and times 4
denom_sq4(r) ==
    LET pre == denom_pre(r)
    IN  <<Abs(pre[1]), Abs(pre[2]), Abs(pre[3]), Abs(pre[4])>>

\* lines 165-188; the component denom[:, k] has the numerator 4 * denom[k]^2
case0(r) ==
    <<denom_sq4(r)[1], r.m[1][2] + r.m[2][1], r.m[1][3] + r.m[3][1], r.m[2][3] - r.m[3][2]>>
case1_flipped(r) ==
    <<r.m[1][2] + r.m[2][1], denom_sq4(r)[2], r.m[2][3] + r.m[3][2], r.m[1][3] - r.m[3][1]>>
case1(r) ==
    <<r.m[1][2] + r.m[2][1], denom_sq4(r)[2], r.m[2][3] + r.m[3][2], r.m[3][1] - r.m[1][3]>>
case2(r) ==
    <<r.m[1][3] + r.m[3][1], r.m[2][3] + r.m[3][2], denom_sq4(r)[3], r.m[1][2] - r.m[2][1]>>
case3(r) ==
    <<r.m[2][3] - r.m[3][2], r.m[3][1] - r.m[1][3], r.m[1][2] - r.m[2][1], denom_sq4(r)[4]>>
cases(r) == <<case0(r), case1(r), case2(r), case3(r)>>

\* line 193: torch.argmax(denom.detach(), 1); sqrt is increasing, so the
\* largest denom is the largest 4 * denom^2
m2q_select_min(r) == ArgMin(denom_sq4(r))
m2q_select(r) == ArgMax(denom_sq4(r))

\* per batch element: the selected candidate and the case it came from
so3_matrix_to_quaternions(r) ==
    Eager([i \in DOMAIN r |->
        LET sel == m2q_select(r[i])
        IN  [q |-> cases(r[i])[sel], sel |-> sel]])

\* lines 218-225 for one quaternion: every product of two normalised
\* components is the product of the components over |q|^2
quaternions_to_so3_matrix(q) ==
    LET r == q[1]
        i == q[2]
        j == q[3]
        k == q[4]
    IN  [m |-> <<<<r*r - i*i - j*j + k*k, 2*(r*i + j*k), 2*(r*j - i*k)>>,
                 <<2*(r*i - j*k), 0 - r*r + i*i - j*j + k*k, 2*(i*j + r*k)>>,
                 <<2*(r*j + i*k), 2*(i*j - r*k), 0 - r*r - i*i + j*j + k*k>>>>,
         one |-> r*r + i*i + j*j + k*k]

(***************************************************************************)
(* wigner_d_matrix, block_wigner_matrix_multiply (one batch element)       *)
(*                                                                         *)
(* The Wigner-D matrix of a degree is held by name, and a product row by   *)
(* what it is computed from: row i of matrix.bmm(block) is                 *)
(* [D |-> matrix, row |-> i, of |-> block].                                *)
(***************************************************************************)
\* lines 264-268: the (2*degree+1) x (2*degree+1) matrix
wigner_d_matrix(angles, degree) ==
    [angles |-> angles, degree |-> degree, dim |-> 2 * degree + 1]

\* data[:, start:stop, :] with Python's clamping of a slice to the axis
Slice(rows, start, stop) ==
    LET lo == IF start > Len(rows) THEN Len(rows) ELSE start
        hi == IF stop > Len(rows) THEN Len(rows) ELSE stop
    IN  SubSeq(rows, lo + 1, hi)

\* torch.bmm: the inner dimensions must agree
Bmm(matrix, block) ==
    IF Len(block) = matrix.dim
    THEN Eager([i \in 1..matrix.dim |-> [D |-> matrix, row |-> i, of |-> block]])
    ELSE <<"RuntimeError">>

\* line 294
block_next_start_dim(start, dim, degree) == dim
block_next_start(start, dim, degree) == start + dim

\* lines 290-294: the loop, from `degree` on
RECURSIVE block_loop(_, _, _, _, _, _)
block_loop(angles, rows, max_degree, degree, start, outputs) ==
    IF degree > max_degree THEN outputs
    ELSE LET dim == 2 * degree + 1
             matrix == wigner_d_matrix(angles, degree)
             out == [rows |-> Bmm(matrix, Slice(rows, start, start + dim)),
                     start |-> start, stop |-> start + dim]
         IN  block_loop(angles, rows, max_degree, degree + 1,
                        block_next_start(start, dim, degree), Append(outputs, out))

\* torch.cat(outputs, 1)
RECURSIVE Cat(_)
Cat(outputs) ==
    IF outputs = <<>> THEN <<>> ELSE Head(outputs).rows \o Cat(Tail(outputs))

block_wigner_matrix_multiply(angles, rows, max_degree) ==
    LET outputs == block_loop(angles, rows, max_degree, 0, 0, <<>>)
    IN  [out |-> Cat(outputs),
         slices |-> Eager([d \in DOMAIN outputs |-> <<outputs[d].start, outputs[d].stop>>])]

(***************************************************************************)
(* The kernels as a state machine: a call is drawn by Init, and the one    *)
(* action of its kernel applies it.                                        *)
(***************************************************************************)
\* algebra vectors along a coordinate axis, whole quarter turns
AxisVecs ==
    {v \in [I3 -> (0 - MaxTurns)..MaxTurns] :
        Cardinality({i \in I3 : v[i] # 0}) <= 1}

\* the rotation by k quarter turns about coordinate axis a
AxisRot(a, k) ==
    LET c == Cos(k)
        s == Sin(k)
    IN  CASE a = 1 -> <<<<1, 0, 0>>, <<0, c, 0 - s>>, <<0, s, c>>>>
          [] a = 2 -> <<<<c, 0, s>>, <<0, 1, 0>>, <<0 - s, 0, c>>>>
          [] a = 3 -> <<<<c, 0 - s, 0>>, <<s, c, 0>>, <<0, 0, 1>>>>
RotGrid == {AxisRot(a, k) : a \in I3, k \in 0..3}

Batches(S) == UNION {[1..n -> S] : n \in 1..MaxBatch}

\* the rotation of the integer quaternion (w, x, y, z), as numerators over |q|^2
QuatRot(w, x, y, z) ==
    [m |-> <<<<w*w + x*x - y*y - z*z, 2*(x*y - w*z), 2*(x*z + w*y)>>,
             <<2*(x*y + w*z), w*w - x*x + y*y - z*z, 2*(y*z - w*x)>>,
             <<2*(x*z - w*y), 2*(y*z + w*x), w*w - x*x - y*y + z*z>>>>,
     one |-> w*w + x*x + y*y + z*z]
QComp == (0 - MaxNormSq)..MaxNormSq
QuatRots ==
    {QuatRot(q[1], q[2], q[3], q[4]) :
        q \in {p \in QComp \X QComp \X QComp \X QComp :
                 /\ p[1]*p[1] + p[2]*p[2] + p[3]*p[3] + p[4]*p[4] >= 1
                 /\ p[1]*p[1] + p[2]*p[2] + p[3]*p[3] + p[4]*p[4] <= MaxNormSq}}

AngleSet == {<<0, 0, 0>>, <<1, 2, 3>>}
BlockCalls ==
    UNION {[angles : AngleSet, max_degree : {L},
            rows : [1..((L + 1) * (L + 1)) -> {0, 1}]] : L \in 0..MaxDegree}

Kernels ==
    {"so3_hat", "so3_exp", "so3_log", "so3_log_pi",
     "so3_matrix_to_quaternions", "block_wigner_matrix_multiply"}

KernelArgs(f) ==
    CASE f = "so3_hat" -> [I3 -> (0 - MaxComp)..MaxComp]
      [] f = "so3_exp" -> Batches(AxisVecs)
      [] f = "so3_log" -> Batches(RotGrid)
      [] f = "so3_log_pi" -> {[r |-> r, theta |-> so3_log_theta(r)] : r \in Batches(RotGrid)}
      [] f = "so3_matrix_to_quaternions" -> Batches(QuatRots)
      [] f = "block_wigner_matrix_multiply" -> BlockCalls

Threads == 1..NThreads
CacheIdle ==
    /\ data = <<>>
    /\ lists = <<>>
    /\ pc = [t \in Threads |-> "idle"]
    /\ call = [t \in Threads |-> <<>>]
    /\ device_data = [t \in Threads |-> 0]
    /\ ret = [t \in Threads |-> 0]
    /\ J = [t \in Threads |-> <<>>]
    /\ ncalls = [t \in Threads |-> 0]

InitKernels ==
    /\ fn \in Kernels
    /\ arg \in KernelArgs(fn)
    /\ res = <<>>
    /\ done = FALSE
    /\ CacheIdle

Return(f, value) ==
    /\ fn = f
    /\ ~done
    /\ res' = value
    /\ done' = TRUE
    /\ UNCHANGED <<fn, arg>>
    /\ UNCHANGED cacheVars

Apply_so3_hat == Return("so3_hat", so3_hat(arg))

Apply_so3_exp == Return("so3_exp", so3_exp(arg))

\* the result, and the indices each masked assignment wrote
Apply_so3_log ==
    Return("so3_log",
           [log |-> so3_log(arg),
            ratio_written |-> Range(so3_log_mask_zero(so3_log_theta(arg))),
            log_written |-> Range(so3_log_mask_pi(so3_log_cos_theta(arg)))])

Apply_so3_log_pi == Return("so3_log_pi", so3_log_pi(arg.r, arg.theta))

Apply_so3_matrix_to_quaternions ==
    Return("so3_matrix_to_quaternions", so3_matrix_to_quaternions(arg))

Apply_block_wigner_matrix_multiply ==
    Return("block_wigner_matrix_multiply",
           block_wigner_matrix_multiply(arg.angles, arg.rows, arg.max_degree))

NextKernels ==
    \/ Apply_so3_hat
    \/ Apply_so3_exp
    \/ Apply_so3_log
    \/ Apply_so3_log_pi
    \/ Apply_so3_matrix_to_quaternions
    \/ Apply_block_wigner_matrix_multiply

SpecKernels == InitKernels /\ [][NextKernels]_vars

(***************************************************************************)
(* JContainer: the class-level cache, and the threads that call into it.   *)
(* A thread runs one call at a time: JContainer.get(device),               *)
(* wigner_d_matrix(angles, degree) or block_wigner_matrix_multiply(angles, *)
(* data, max_degree); a step is one statement of JContainer.get or the     *)
(* read of the constant matrix in wigner_d_matrix.  Nothing in the source  *)
(* holds a lock, so the steps of different threads interleave freely.      *)
(***************************************************************************)
Devices == {<<"cpu", 0>>, <<"cuda", 0>>}

\* str(device)
DeviceStr(device) ==
    CASE device = <<"cpu", 0>> -> "cpu"
      [] device = <<"cuda", 0>> -> "cuda:0"

\* lines 255-256: the list built for a device, one tensor per degree of Jd_np
BuildList(device) ==
    [device |-> device,
     J |-> Eager([l \in 1..(MaxDegree + 1) |-> [Jd |-> l - 1, device |-> device]])]

\* line 249: str(device) in cls.data
CacheHit_never(d, device) == FALSE
CacheHit(d, device) == DeviceStr(device) \in DOMAIN d

\* line 257: cls.data[str(device)] = device_data
DictSet(d, key, value) ==
    [k \in (DOMAIN d) \cup {key} |-> IF k = key THEN value ELSE d[k]]

Ops == {"get", "wigner_d_matrix", "block_wigner_matrix_multiply"}

InitCache ==
    /\ fn = "none"
    /\ arg = <<>>
    /\ res = <<>>
    /\ done = FALSE
    /\ CacheIdle

\* a thread enters a call; each Wigner-D call starts with JContainer.get
\* (line 264), the block multiply with degree 0 (line 290)
Start(t) ==
    /\ pc[t] = "idle"
    /\ ncalls[t] < MaxCalls
    /\ \E op \in Ops : \E device \in Devices : \E degree \in 0..MaxDegree :
         call' = [call EXCEPT ![t] =
                    [op |-> op, device |-> device,
                     degree |-> IF op = "wigner_d_matrix" THEN degree ELSE 0,
                     max_degree |-> IF op = "get" THEN 0 ELSE degree]]
    /\ pc' = [pc EXCEPT ![t] = "get_249"]
    /\ ncalls' = [ncalls EXCEPT ![t] = @ + 1]
    /\ device_data' = [device_data EXCEPT ![t] = 0]
    /\ ret' = [ret EXCEPT ![t] = 0]
    /\ J' = [J EXCEPT ![t] = <<>>]
    /\ UNCHANGED <<data, lists>>
    /\ UNCHANGED kernelVars

\* line 249: if str(device) in cls.data
GetCheck(t) ==
    /\ pc[t] = "get_249"
    /\ pc' = [pc EXCEPT ![t] =
                IF CacheHit(data, call[t].device) THEN "get_250" ELSE "get_255"]
    /\ UNCHANGED <<data, lists, call, device_data, ret, J, ncalls>>
    /\ UNCHANGED kernelVars

\* line 250: return cls.data[str(device)]
GetReturnCached(t) ==
    /\ pc[t] = "get_250"
    /\ ret' = [ret EXCEPT ![t] = data[DeviceStr(call[t].device)]]
    /\ pc' = [pc EXCEPT ![t] = "returned"]
    /\ UNCHANGED <<data, lists, call, device_data, J, ncalls>>
    /\ UNCHANGED kernelVars

\* lines 252-256: device_data = [torch.tensor(J, ...) for J in Jd_np], a new list
GetBuild(t) ==
    /\ pc[t] = "get_255"
    /\ lists' = Append(lists, BuildList(call[t].device))
    /\ device_data' = [device_data EXCEPT ![t] = Len(lists) + 1]
    /\ pc' = [pc EXCEPT ![t] = "get_257"]
    /\ UNCHANGED <<data, call, ret, J, ncalls>>
    /\ UNCHANGED kernelVars

\* line 257: cls.data[str(device)] = device_data
GetStore(t) ==
    /\ pc[t] = "get_257"
    /\ data' = DictSet(data, DeviceStr(call[t].device), device_data[t])
    /\ pc' = [pc EXCEPT ![t] = "get_259"]
    /\ UNCHANGED <<lists, call, device_data, ret, J, ncalls>>
    /\ UNCHANGED kernelVars

\* line 259: return device_data
GetReturnBuilt(t) ==
    /\ pc[t] = "get_259"
    /\ ret' = [ret EXCEPT ![t] = device_data[t]]
    /\ pc' = [pc EXCEPT ![t] = "returned"]
    /\ UNCHANGED <<data, lists, call, device_data, J, ncalls>>
    /\ UNCHANGED kernelVars

\* a direct JContainer.get call is over; the locals of a finished call are
\* dropped (J keeps the matrix a thread read last, for inspection)
GetDone(t) ==
    /\ pc[t] = "returned"
    /\ call[t].op = "get"
    /\ pc' = [pc EXCEPT ![t] = "idle"]
    /\ call' = [call EXCEPT ![t] = <<>>]
    /\ device_data' = [device_data EXCEPT ![t] = 0]
    /\ ret' = [ret EXCEPT ![t] = 0]
    /\ UNCHANGED <<data, lists, J, ncalls>>
    /\ UNCHANGED kernelVars

\* lines 264-268: J = JContainer.get(angles.device)[degree][None], then the
\* matrix products, none of them in place; line 290: the next degree, if any
WignerRead(t) ==
    /\ pc[t] = "returned"
    /\ call[t].op # "get"
    /\ J' = [J EXCEPT ![t] = lists[ret[t]].J[call[t].degree + 1]]
    /\ IF call[t].op = "block_wigner_matrix_multiply"
          /\ call[t].degree < call[t].max_degree
       THEN /\ call' = [call EXCEPT ![t].degree = @ + 1]
            /\ pc' = [pc EXCEPT ![t] = "get_249"]
       ELSE /\ call' = [call EXCEPT ![t] = <<>>]
            /\ pc' = [pc EXCEPT ![t] = "idle"]
    /\ device_data' = [device_data EXCEPT ![t] = 0]
    /\ ret' = [ret EXCEPT ![t] = 0]
    /\ UNCHANGED <<data, lists, ncalls>>
    /\ UNCHANGED kernelVars

Step(t) ==
    \/ GetCheck(t)
    \/ GetReturnCached(t)
    \/ GetBuild(t)
    \/ GetStore(t)
    \/ GetReturnBuilt(t)
    \/ GetDone(t)
    \/ WignerRead(t)

\* threads run concurrently
Next == \E t \in Threads : Start(t) \/ Step(t)

Spec == InitCache /\ [][Next]_vars

\* one call at a time: a call starts only when no other call is under way
StartAlone(t) ==
    /\ \A u \in Threads : pc[u] = "idle"
    /\ Start(t)

NextSeq == \E t \in Threads : StartAlone(t) \/ Step(t)

SpecSeq == InitCache /\ [][NextSeq]_vars

(***************************************************************************)
(* Properties of the cache.                                                *)
(***************************************************************************)
ListsOf(device) == {i \in DOMAIN lists : lists[i].device = device}

\* C1 (under Spec, concurrent callers): the list of a device is built once,
\* by one caller, and every caller returns the list stored under str(device).
C1_PopulatedOnce ==
    /\ \A device \in Devices : Cardinality(ListsOf(device)) <= 1
    /\ \A t \in Threads :
         pc[t] = "returned" => ret[t] = data[DeviceStr(call[t].device)]

\* C2 (under SpecSeq, one call after the other): an entry, once stored, is
\* never removed or replaced; a built list is never written to; no list is
\* built for a device that has an entry; an entry appears only by the store
\* of a get for that device; every get returns the list stored for its
\* device; a Wigner-D read changes neither the dict nor the lists.
C2_EntryStable ==
    [][/\ \A k \in DOMAIN data : k \in DOMAIN data' /\ data'[k] = data[k]
       /\ \A i \in DOMAIN lists : i \in DOMAIN lists' /\ lists'[i] = lists[i]
       /\ \A i \in (DOMAIN lists') \ (DOMAIN lists) :
            DeviceStr(lists'[i].device) \notin DOMAIN data
       /\ \A k \in (DOMAIN data') \ (DOMAIN data) :
            \E t \in Threads :
                /\ pc[t] = "get_257"
                /\ k = DeviceStr(call[t].device)
                /\ data'[k] = device_data[t]
       /\ \A t \in Threads :
            (pc[t] # "returned" /\ pc'[t] = "returned") =>
                /\ DeviceStr(call[t].device) \in DOMAIN data'
                /\ ret'[t] = data'[DeviceStr(call[t].device)]
       /\ \A t \in Threads :
            (pc[t] = "returned" /\ call[t].op # "get") =>
                data' = data /\ lists' = lists]_vars

C2_Witness ==
    /\ Len(lists) = 2
    /\ DOMAIN data = {"cpu", "cuda:0"}
    /\ \E t \in Threads : \E u \in Threads :
         /\ t # u
         /\ ncalls[t] = 2 /\ ncalls[u] = 2
         /\ pc[t] = "idle" /\ J[t] = [Jd |-> 2, device |-> <<"cuda", 0>>]
         /\ pc[u] = "returned" /\ call[u].op = "get"
         /\ call[u].device = <<"cuda", 0>>
         /\ ret[u] = data["cuda:0"] /\ lists[ret[u]].J[3] = J[t]

(***************************************************************************)
(* Properties of the kernels (under SpecKernels).                          *)
(***************************************************************************)
Returned(f) == fn = f /\ done

\* C3: in so3_log no batch element is written by both masked assignments,
\* the near-zero one (line 76) and the near-pi one (line 83).
C3_BranchesDisjoint ==
    Returned("so3_log") => res.ratio_written \cap res.log_written = {}

\* C4: so3_log maps every identity element of a batch to the all-zero
\* matrix, with no NaN or infinity in it.
C4_LogIdentityIsZero ==
    Returned("so3_log") =>
        \A i \in DOMAIN arg : arg[i] = Eye => res.log[i] = ZeroMat

\* C5: so3_exp returns the identity for every element with theta < 1E-20,
\* whose axis is replaced by the zero vector before so3_hat; the other
\* elements of the batch keep the axis v / theta; no NaN reaches the result.
C5_ExpZeroIsIdentity ==
    Returned("so3_exp") =>
        LET v_normed == so3_exp_v_normed(arg)
        IN  \A i \in DOMAIN arg :
                LET theta == Norm(arg[i])
                IN  /\ LtTheta(theta) => v_normed[i] = Zero3 /\ res[i] = Eye
                    /\ ~LtTheta(theta) => v_normed[i] = VecDiv(arg[i], theta)
                    /\ ~MatHasNaN(res[i])

C5_Witness ==
    /\ Returned("so3_exp")
    /\ Len(arg) = 2
    /\ arg[1] = Zero3 /\ res[1] = Eye
    /\ arg[2] = <<0, 0 - 2, 0>> /\ res[2] = AxisRot(2, 2)
    /\ so3_exp_v_normed(arg) = <<Zero3, <<0, 0 - 1, 0>>>>

\* C6: block_wigner_matrix_multiply with (max_degree+1)^2 rows hands degree
\* d exactly the rows [d^2, d^2 + 2d + 1): the slices are contiguous, every
\* row lies in exactly one of them, and the output has the input's length
\* with block d at the same rows.
C6_BlockSlices ==
    Returned("block_wigner_matrix_multiply") =>
        LET L == arg.max_degree
            n == Len(arg.rows)
        IN  /\ Len(res.slices) = L + 1
            /\ \A d \in 0..L : res.slices[d + 1] = <<d * d, d * d + 2 * d + 1>>
            /\ \A d \in 1..L : res.slices[d + 1][1] = res.slices[d][2]
            /\ \A k \in 0..(n - 1) :
                 Cardinality({d \in 1..(L + 1) :
                    res.slices[d][1] <= k /\ k < res.slices[d][2]}) = 1
            /\ Len(res.out) = n
            /\ \A d \in 0..L : \A i \in 1..(2 * d + 1) :
                 res.out[d * d + i] =
                    [D |-> wigner_d_matrix(arg.angles, d), row |-> i,
                     of |-> SubSeq(arg.rows, d * d + 1, d * d + 2 * d + 1)]

C6_Witness ==
    /\ Returned("block_wigner_matrix_multiply")
    /\ arg.max_degree = 2
    /\ arg.rows = <<1, 0, 1, 1, 0, 0, 1, 0, 1>>
    /\ res.slices = <<<<0, 1>>, <<1, 4>>, <<4, 9>>>>
    /\ res.out[5].D.degree = 2 /\ res.out[5].of = <<0, 0, 1, 0, 1>>

\* C7: so3_vee(so3_hat(v)) = v, and so3_hat(v) is skew-symmetric with a
\* zero diagonal.
C7_HatVee ==
    Returned("so3_hat") =>
        /\ so3_vee(res) = arg
        /\ Transpose(res) = MatNeg(res)
        /\ \A i \in I3 : res[i][i] = 0

C7_Witness ==
    /\ Returned("so3_hat")
    /\ arg = <<1, 0 - 2, 2>>
    /\ res = <<<<0, 0 - 2, 0 - 2>>, <<2, 0, 0 - 1>>, <<2, 1, 0>>>>

\* two matrices given as numerators over a denominator are the same matrix
SameRot(a, b) ==
    /\ a.one > 0 /\ b.one > 0
    /\ \A i \in I3 : \A j \in I3 : a.m[i][j] * b.one = b.m[i][j] * a.one

\* C8: quaternions_to_so3_matrix(so3_matrix_to_quaternions(R)) = R for the
\* selected case, and every candidate case with a nonzero denominator gives
\* that same rotation.
C8_QuaternionRoundTrip ==
    Returned("so3_matrix_to_quaternions") =>
        \A i \in DOMAIN arg :
            LET candidates == cases(arg[i])
                denom2 == denom_sq4(arg[i])
            IN  /\ SameRot(quaternions_to_so3_matrix(res[i].q), arg[i])
                /\ \A k \in 1..4 :
                     denom2[k] > 0 =>
                        SameRot(quaternions_to_so3_matrix(candidates[k]), arg[i])

C8_Witness ==
    /\ Returned("so3_matrix_to_quaternions")
    /\ Len(arg) = 2
    /\ res[1].sel = 2 /\ res[2].sel = 3
    /\ \E k \in 1..4 : k # res[1].sel /\ denom_sq4(arg[1])[k] > 0
    /\ \E i \in I3 : arg[1].m[i][i] # 0 /\ Abs(arg[1].m[i][i]) # arg[1].one

\* C9: so3_log_pi returns, per batch element, so3_hat(s * x) for a sign row
\* s whose round trip so3_exp(s * x) is at least as close to R as that of
\* each of the 8 rows; so3_log of so3_exp((pi, 0, 0)) has norm pi along x.
C9_LogPiArgmin ==
    /\ Returned("so3_log_pi") =>
        LET x == so3_log_pi_x(arg.r, arg.theta)
            x_stack == so3_log_pi_x_stack(x)
            diff == so3_log_pi_diff(arg.r, x_stack)
        IN  \A i \in DOMAIN arg.r :
                \E s \in DOMAIN signs :
                    /\ res[i] = so3_hat(VecMul(signs[s], x[i]))
                    /\ \A t \in DOMAIN signs : ~Lt(diff[t][i], diff[s][i])
    /\ Returned("so3_log") =>
        \A i \in DOMAIN arg :
            arg[i] = so3_exp(<<<<2, 0, 0>>>>)[1] =>
                res.log[i] \in {so3_hat(<<2, 0, 0>>), so3_hat(<<0 - 2, 0, 0>>)}

C9_Witness ==
    /\ Returned("so3_log_pi")
    /\ arg.r = <<AxisRot(3, 1), AxisRot(3, 3)>>
    /\ res = <<so3_hat(<<0, 0, 1>>), so3_hat(<<0, 0, 0 - 1>>)>>

\* C10: for a valid rotation matrix (the four pre-root terms are >= 0 and
\* sum to 4) the selected case has a pre-root term of at least 1, that is a
\* denominator of at least 0.5.
C10_SelectedDenominator ==
    Returned("so3_matrix_to_quaternions") =>
        \A i \in DOMAIN arg :
            LET pre == denom_pre(arg[i])
            IN  (/\ \A k \in 1..4 : pre[k] >= 0
                 /\ pre[1] + pre[2] + pre[3] + pre[4] = 4 * arg[i].one)
                => /\ pre[res[i].sel] >= arg[i].one
                   /\ denom_sq4(arg[i])[res[i].sel] >= arg[i].one

C10_Witness ==
    /\ Returned("so3_matrix_to_quaternions")
    /\ Len(arg) = 2
    /\ denom_pre(arg[1]) = <<0, 0, 0, 4>> /\ res[1].sel = 4
    /\ denom_pre(arg[2]) = <<4, 4, 0, 4>> /\ res[2].sel = 1

====
